---- MODULE Spec2Model ----
(***************************************************************************)
(* A model of the LED tree engine of src/app/tree.py: the Lights' records, *)
(* the asyncio effect tasks and their slots, the SPI transfer thread and   *)
(* shutdown.                                                               *)
(*                                                                         *)
(* Units.  Brightness is kept in hundredths (0.1 is 10, 1.0 is 100): every *)
(* brightness the code writes is x / 100 for an integer x.  A colour       *)
(* channel of the external colour model (a float in [0, 1]) is kept in     *)
(* half-bytes, m standing for m / 510.  Time is counted in periods of the  *)
(* default refresh rate (1/120 s); the offsets of the calls without        *)
(* light_id and the time between their starts are in ms.                   *)
(*                                                                         *)
(* Threads.  The event-loop thread runs the caller's coroutine and the     *)
(* effect tasks, one at a time, a task giving up the thread only at its    *)
(* await; the device thread runs _spi_transfer_loop and may run between    *)
(* any two steps of the event-loop thread.                                 *)
(***************************************************************************)
EXTENDS Integers, Sequences, FiniteSets, TLC

VARIABLES
    lights,              \* Light.state of every light: the record it holds
    glow_effect_task,    \* Light.glow_effect_task: a task id, or None
    hue_effect_task,     \* Light.hue_effect_task: a task id, or None
    tasks,               \* every asyncio task created so far, by id
    hung,                \* the task that holds the event-loop thread for ever, or None
    shut,                \* where shutdown() is: "none" before the call
    offIdx,              \* lights_off: the next light to switch off
    graceLeft,           \* what is left of shutdown's time.sleep(0.2)
    lastEffectCall,      \* the last start/stop call made on a light's effect slots
    budget,              \* how many more calls the caller makes on lights and effects
    device_running,      \* LEDTree.device_running
    device_refresh_rate, \* LEDTree.device_refresh_rate
    loopPc,              \* where the device thread is in _spi_transfer_loop
    snapshot,            \* the device thread's snapshot, read so far
    loopTimer,           \* what is left of the device thread's blocking call
    bus,                 \* the frame the transport is transferring, << >> when it has none
    snapAfterOff,        \* the snapshot being used was begun after lights_off ended
    cleanSnap,           \* such a snapshot was completed before the loop was told to stop
    offSent,             \* an all-off frame was handed over after lights_off ended
    litAfterOff,         \* a frame that is not all-off was handed over after that one
    implement_star,      \* LEDTree.implement_star
    raised,              \* the last error a call on the tree raised to its caller
    spi_ready,           \* SPIDevice._spi is not None: the transport is open
    directFrame,         \* the last frame a call of the caller handed to the transport
    fan,                 \* the start_*_effect call without light_id in progress, or the last one
    fanTimer,            \* what is left of that call's asyncio.sleep, in ms
    fanClock,            \* the time since the call in progress was made, in ms
    fanLog               \* the lights the call in progress has started an effect on, with the times

vars == << lights, glow_effect_task, hue_effect_task, tasks, hung, shut, offIdx,
           graceLeft, lastEffectCall, budget, device_running, device_refresh_rate, loopPc, snapshot,
           loopTimer, bus, snapAfterOff, cleanSnap, offSent, litAfterOff,
           implement_star, raised, spi_ready, directFrame, fan, fanTimer, fanClock,
           fanLog >>

(***************************************************************************)
(* Bounds of the model.                                                    *)
(***************************************************************************)
NumLights == 4
MaxCalls == 2
MaxEffectCalls == 3
MaxHueTicks == 2
MaxTransferTicks == 1
MaxTreeCalls == 3
MaxDeviceCalls == 2
MaxFanCalls == 1
MaxFanTicks == 1
MaxHueCalls == 1

(***************************************************************************)
(* Constants of the program.                                               *)
(***************************************************************************)
MAX_BRIGHTNESS == 31
DEFAULT_BRIGHTNESS == 10
StarId == 3
HueSteps == 100
TicksPerSecond == 120
BrightnessFrame == 224

None == 0
LightIds == 0 .. (NumLights - 1)

(***************************************************************************)
(* The inputs the callers of the model pass.                               *)
(***************************************************************************)
Red == << 510, 0, 0 >>
Green == << 0, 256, 0 >>
Yellow == << 510, 510, 0 >>
Grey == << 255, 255, 255 >>
ColorInputs == { Grey }
BrightnessInputs == { 100, 150 }
GlowInputs == { << 20, 22 >>, << 50, 50 >> }
WideGlowInputs == GlowInputs \cup { << 99, 102 >> }
HueInputs == { << Red, Grey >> }
LongHueInputs == { << Grey >>, << Red, Grey >>, << Red, Yellow, Green >> }
RefreshRates == { 120, 4 }
DeviceColors == { Grey, << 2, 254, 509 >> }
DeviceBrightness == { 0, 3, 4, 33, 97, 100 }
BadLightIds == { -1, NumLights }
FanGlowInputs == { << 20, 21 >> }
OffsetInputs == { << 0, FALSE >>, << 2, FALSE >>, << 1, TRUE >> }
TreeLightIds == { 0 } \cup BadLightIds
TreeGlowInputs == { << 20, 22 >>, << 29, 31 >> }

Max(a, b) == IF a >= b THEN a ELSE b

(***************************************************************************)
(* int(): truncation towards zero of the quotient a / b, b > 0.            *)
(***************************************************************************)
Trunc(a, b) == IF a >= 0 THEN a \div b ELSE -((-a) \div b)

(***************************************************************************)
(* int(x * 100) for the float nearest h / 100: the product falls just      *)
(* below the integer for these h (0.29 * 100 is 28.999999999999996).       *)
(***************************************************************************)
Int100(h) == IF h \in { 29, 57, 58, 113, 114, 115, 116 } THEN h - 1 ELSE h

(***************************************************************************)
(* int(c * 255) of a channel c = m / 510.                                  *)
(***************************************************************************)
ToByte(m) == Trunc(m, 2)

ColorBrightness(r, g, b, br) == [ red |-> r, green |-> g, blue |-> b, brightness |-> br ]

(***************************************************************************)
(* The Field constraints of ColorBrightness, checked at construction only. *)
(***************************************************************************)
Valid(cb) ==
    /\ cb.red \in 0 .. 255
    /\ cb.green \in 0 .. 255
    /\ cb.blue \in 0 .. 255
    /\ cb.brightness >= 0
    /\ cb.brightness <= 100

from_color(color, brightness) ==
    ColorBrightness(ToByte(color[1]), ToByte(color[2]), ToByte(color[3]), brightness)

OffState == ColorBrightness(0, 0, 0, 0)

(***************************************************************************)
(* A snapshot entry is a reference to the record the light held when it    *)
(* was read.  While the light still holds that record the entry is live    *)
(* and shows the record's fields as they are now; once the light's state   *)
(* is replaced by a new record the entry keeps the old record's value.     *)
(***************************************************************************)
LiveEntry == [ live |-> TRUE, val |-> OffState ]

\* an entry that keeps the old record with the blue of the new one
DetachTorn(snap, l) ==
    [ i \in DOMAIN snap |->
        IF i = l + 1 /\ snap[i].live
        THEN [ live |-> FALSE, val |-> [ lights[l] EXCEPT !.blue = lights'[l].blue ] ]
        ELSE snap[i] ]

Detach(snap, l) ==
    [ i \in DOMAIN snap |->
        IF i = l + 1 /\ snap[i].live
        THEN [ live |-> FALSE, val |-> lights[l] ]
        ELSE snap[i] ]

DetachAll(snap, ls) ==
    [ i \in DOMAIN snap |->
        IF (i - 1) \in ls /\ snap[i].live
        THEN [ live |-> FALSE, val |-> lights[i - 1] ]
        ELSE snap[i] ]

SnapVal(i) == IF snapshot[i].live THEN lights[i - 1] ELSE snapshot[i].val

(***************************************************************************)
(* FrameEncoder: LEDValue256.from_color_brightness and spi_transfer.       *)
(***************************************************************************)
RECURSIVE BitOrNat(_, _)
BitOrNat(a, b) ==
    IF a = 0 THEN b
    ELSE IF b = 0 THEN a
    ELSE (IF a % 2 = 1 \/ b % 2 = 1 THEN 1 ELSE 0) + 2 * BitOrNat(a \div 2, b \div 2)

RECURSIVE BitAndNot(_, _)
BitAndNot(a, b) ==
    IF a = 0 THEN 0
    ELSE (IF a % 2 = 1 /\ b % 2 = 0 THEN 1 ELSE 0) + 2 * BitAndNot(a \div 2, b \div 2)

\* x | y of Python's integers for y >= 0 (x | y = ~(~x & ~y) when x < 0)
BitOr(x, y) == IF x >= 0 THEN BitOrNat(x, y) ELSE -BitAndNot(-x - 1, y) - 1

\* the brightness byte without its three leading 1 bits
from_color_brightness_unframed(value) ==
    [ red |-> value.red, green |-> value.green, blue |-> value.blue,
      brightness |-> Trunc(value.brightness * MAX_BRIGHTNESS, 100) ]

from_color_brightness(value) ==
    [ red |-> value.red, green |-> value.green, blue |-> value.blue,
      brightness |-> BitOr(Trunc(value.brightness * MAX_BRIGHTNESS, 100), BrightnessFrame) ]

RECURSIVE flattened_pixels(_)
flattened_pixels(pixels) ==
    IF pixels = << >> THEN << >>
    ELSE << Head(pixels).brightness, Head(pixels).blue, Head(pixels).green, Head(pixels).red >>
         \o flattened_pixels(Tail(pixels))

start_of_frame == << 0, 0, 0, 0 >>
end_of_frame == << 0, 0, 0, 0, 0 >>

Encode(values) ==
    start_of_frame
    \o flattened_pixels([ i \in DOMAIN values |-> from_color_brightness(values[i]) ])
    \o end_of_frame

AllOffFrame == Encode([ i \in 1 .. NumLights |-> OffState ])

(***************************************************************************)
(* Effect tasks.  A task is alive from asyncio.create_task until it is     *)
(* cancelled or ends with an exception.  Task.cancel() on a task waiting   *)
(* in asyncio.sleep (or not yet started) makes the task end at that await: *)
(* it runs no further statement of the coroutine.                          *)
(***************************************************************************)
NewTask(kind, l, lo, hi, colors) ==
    [ kind |-> kind, light |-> l, status |-> "running",
      lo |-> lo, hi |-> hi, colors |-> colors, pos |-> 0 ]

Cancelled(t) ==
    [ kind |-> t.kind, light |-> t.light, status |-> "cancelled",
      lo |-> 0, hi |-> 0, colors |-> << >>, pos |-> 0 ]

Failed(t) ==
    [ kind |-> t.kind, light |-> t.light, status |-> "failed",
      lo |-> 0, hi |-> 0, colors |-> << >>, pos |-> 0 ]

Alive(t) == t.status \in { "running", "spinning" }

AliveTasks(kind, l) ==
    { id \in DOMAIN tasks :
        tasks[id].kind = kind /\ tasks[id].light = l /\ Alive(tasks[id]) }

\* a cancel() that leaves the task as it is
CancelIgnored(ts, id) == ts

\* task.cancel() of the task a slot holds; `if self.x_effect_task:` guards it
Cancel(ts, id) ==
    IF id # None /\ ts[id].status = "running"
    THEN [ ts EXCEPT ![id] = Cancelled(ts[id]) ]
    ELSE ts

\* the event-loop thread is free to run a callback or the caller's next call
EvFree == hung = None /\ shut \in { "none", "returned" }

\* set_all_lights without the star test
BulkLightsAll == LightIds

BulkLights == { l \in LightIds : l # StarId \/ ~implement_star }

EffectCall(op, l, pre) == [ op |-> op, light |-> l, pre |-> pre ]

devVars == << device_running, device_refresh_rate, loopPc, loopTimer, bus,
              snapAfterOff, cleanSnap, offSent, litAfterOff >>
shutVars == << shut, offIdx, graceLeft >>
slotVars == << glow_effect_task, hue_effect_task, tasks, hung, lastEffectCall >>
fanVars == << fan, fanTimer, fanClock, fanLog >>
treeVars == << implement_star, raised, spi_ready, directFrame, fanVars >>

\* a start_*_effect call without light_id, as the caller awaits it
NoFanOut ==
    [ op |-> "none", pc |-> "idle", next |-> 0, in |-> << 0, 0 >>, colors |-> << >>,
      offset_ms |-> 0, offset_is_randomised |-> FALSE ]

\* the caller, not waiting in an await of its own, makes one of the calls it has left
Spend == budget > 0 /\ fan.pc # "sleep" /\ budget' = budget - 1

(***************************************************************************)
(* LEDTree._get_light: the range check, the list access and the error.     *)
(***************************************************************************)
\* the check without its lower bound
InRangeBelowLen(light_id) == light_id < NumLights

InRange(light_id) == 0 <= light_id /\ light_id < NumLights

\* self.lights[light_id]: a negative index counts from the end of the list
ListIndex(light_id) == IF light_id < 0 THEN light_id + NumLights ELSE light_id

NoError == [ type |-> "none", msg |-> "", light_id |-> 0, lo |-> 0, hi |-> 0 ]

\* ValueError(f"Light ID {light_id} is out of range (0-{len(self.lights) - 1}).")
RangeError(light_id) ==
    [ type |-> "ValueError", msg |-> "Light ID is out of range",
      light_id |-> light_id, lo |-> 0, hi |-> NumLights - 1 ]

get_light_raises(light_id) ==
    /\ EvFree
    /\ Spend
    /\ raised' = RangeError(light_id)
    /\ UNCHANGED << implement_star, spi_ready, directFrame, fanVars, lights, snapshot,
                    slotVars, shutVars, devVars >>

(***************************************************************************)
(* Light: one-shot writes.  Each builds a new ColorBrightness (validated)  *)
(* and makes it the light's state; a ValidationError leaves the state.     *)
(***************************************************************************)
Light_set_state(l, color, brightness) ==
    /\ EvFree
    /\ Spend
    /\ UNCHANGED treeVars
    /\ LET cb == from_color(color, brightness)
       IN IF Valid(cb)
          THEN /\ lights' = [ lights EXCEPT ![l] = cb ]
               /\ snapshot' = Detach(snapshot, l)
          ELSE UNCHANGED << lights, snapshot >>
    /\ UNCHANGED << slotVars, shutVars, devVars >>

Light_off(l) ==
    /\ EvFree
    /\ Spend
    /\ UNCHANGED treeVars
    /\ lights' = [ lights EXCEPT ![l] = OffState ]
    /\ snapshot' = Detach(snapshot, l)
    /\ UNCHANGED << slotVars, shutVars, devVars >>

\* a set_all_lights that hands the new frame to the transport itself
set_all_lights_transfers(color, brightness) ==
    /\ EvFree
    /\ Spend
    /\ UNCHANGED treeVars
    /\ LET cb == from_color(color, brightness)
       IN IF Valid(cb)
          THEN /\ lights' = [ l \in LightIds |-> IF l \in BulkLights THEN cb ELSE lights[l] ]
               /\ snapshot' = DetachAll(snapshot, BulkLights)
               /\ bus' = Encode([ i \in 1 .. NumLights |-> lights'[i - 1] ])
          ELSE UNCHANGED << lights, snapshot, bus >>
    /\ UNCHANGED << slotVars, shutVars, device_running, device_refresh_rate, loopPc,
                    loopTimer, snapAfterOff, cleanSnap, offSent, litAfterOff >>

\* the first set_state raises when the brightness is invalid: nothing is written;
\* the loop over the lights is taken as one step of the event-loop thread
set_all_lights(color, brightness) ==
    /\ EvFree
    /\ Spend
    /\ UNCHANGED treeVars
    /\ LET cb == from_color(color, brightness)
       IN IF Valid(cb)
          THEN /\ lights' = [ l \in LightIds |-> IF l \in BulkLights THEN cb ELSE lights[l] ]
               /\ snapshot' = DetachAll(snapshot, BulkLights)
          ELSE UNCHANGED << lights, snapshot >>
    /\ UNCHANGED << slotVars, shutVars, devVars >>

\* the owner assigns tree.implement_star
set_implement_star(v) ==
    /\ EvFree
    /\ Spend
    /\ implement_star' = v
    /\ UNCHANGED << raised, spi_ready, directFrame, fanVars, lights, snapshot,
                    slotVars, shutVars, devVars >>

(***************************************************************************)
(* Light: the effect slots.  LEDTree.start_glow_effect and                 *)
(* LEDTree.start_hue_effect with a light_id run the Light's method on that *)
(* light without awaiting anything.  lastEffectCall only records the call  *)
(* (and whether a task of its kind was alive on the light when it was      *)
(* made); no action reads it.                                              *)
(***************************************************************************)
Light_start_glow_effect(l, in) ==
    /\ EvFree
    /\ Spend
    /\ UNCHANGED treeVars
    /\ tasks' = Append(Cancel(tasks, glow_effect_task[l]),
                       NewTask("glow", l, in[1], in[2], << >>))
    /\ glow_effect_task' = [ glow_effect_task EXCEPT ![l] = Len(tasks) + 1 ]
    /\ lastEffectCall' = EffectCall("start_glow_effect", l, AliveTasks("glow", l) # {})
    /\ UNCHANGED << hue_effect_task, hung, lights, snapshot, shutVars, devVars >>

\* a stop_glow_effect that cancels the task and leaves the handle in the slot
Light_stop_glow_effect_keeps_handle(l) ==
    /\ EvFree
    /\ Spend
    /\ UNCHANGED treeVars
    /\ tasks' = Cancel(tasks, glow_effect_task[l])
    /\ lastEffectCall' = EffectCall("stop_glow_effect", l, AliveTasks("glow", l) # {})
    /\ UNCHANGED << glow_effect_task, hue_effect_task, hung, lights, snapshot,
                    shutVars, devVars >>

Light_stop_glow_effect(l) ==
    /\ EvFree
    /\ Spend
    /\ UNCHANGED treeVars
    /\ tasks' = Cancel(tasks, glow_effect_task[l])
    /\ glow_effect_task' = [ glow_effect_task EXCEPT ![l] = None ]
    /\ lastEffectCall' = EffectCall("stop_glow_effect", l, AliveTasks("glow", l) # {})
    /\ UNCHANGED << hue_effect_task, hung, lights, snapshot, shutVars, devVars >>

\* the new task's handle is assigned to glow_effect_task (line 118)
Light_start_hue_effect(l, colors) ==
    /\ EvFree
    /\ Spend
    /\ UNCHANGED treeVars
    /\ tasks' = Append(Cancel(tasks, hue_effect_task[l]),
                       NewTask("hue", l, 0, 0, colors))
    /\ glow_effect_task' = [ glow_effect_task EXCEPT ![l] = Len(tasks) + 1 ]
    /\ lastEffectCall' = EffectCall("start_hue_effect", l, AliveTasks("hue", l) # {})
    /\ UNCHANGED << hue_effect_task, hung, lights, snapshot, shutVars, devVars >>

\* line 124 assigns None to hue_effect_taskk: hue_effect_task is left as it is
Light_stop_hue_effect(l) ==
    /\ EvFree
    /\ Spend
    /\ UNCHANGED treeVars
    /\ tasks' = Cancel(tasks, hue_effect_task[l])
    /\ lastEffectCall' = EffectCall("stop_hue_effect", l, AliveTasks("hue", l) # {})
    /\ UNCHANGED << glow_effect_task, hue_effect_task, hung, lights, snapshot,
                    shutVars, devVars >>

\* both _get_light calls pass or the first one raises
stop_light_effect(light_id) ==
    IF ~InRange(light_id)
    THEN get_light_raises(light_id)
    ELSE LET l == ListIndex(light_id)
         IN /\ EvFree
            /\ Spend
            /\ UNCHANGED treeVars
            /\ tasks' = Cancel(Cancel(tasks, glow_effect_task[l]), hue_effect_task[l])
            /\ glow_effect_task' = [ glow_effect_task EXCEPT ![l] = None ]
            /\ lastEffectCall' = EffectCall("stop_light_effect", l,
                                    AliveTasks("glow", l) \cup AliveTasks("hue", l) # {})
            /\ UNCHANGED << hue_effect_task, hung, lights, snapshot, shutVars, devVars >>

(***************************************************************************)
(* LEDTree: the calls that take a light_id.  _get_light raises before      *)
(* anything is read or written when the id is out of range.                *)
(***************************************************************************)
set_light(light_id, color, brightness) ==
    IF InRange(light_id)
    THEN Light_set_state(ListIndex(light_id), color, brightness)
    ELSE get_light_raises(light_id)

start_glow_effect(light_id, in) ==
    IF InRange(light_id)
    THEN Light_start_glow_effect(ListIndex(light_id), in)
    ELSE get_light_raises(light_id)

start_hue_effect(light_id, colors) ==
    IF InRange(light_id)
    THEN Light_start_hue_effect(ListIndex(light_id), colors)
    ELSE get_light_raises(light_id)

(***************************************************************************)
(* LEDTree.start_glow_effect and start_hue_effect without light_id: a      *)
(* coroutine the caller awaits.  It runs on the event-loop thread from one *)
(* await to the next: with a truthy offset_ms it starts the effect on one  *)
(* light and sleeps, with None or 0 it starts the effect on every light    *)
(* and returns without an await.  r is what the start calls made so far in *)
(* the run have left: the tasks, the two slots, the last call, the log.    *)
(***************************************************************************)
\* light.start_glow_effect(light.glow(...)) or light.start_hue_effect(light.hue(...))
\* at time t
StartOn(r, l, f, t) ==
    LET alive == \E id \in DOMAIN r.tasks :
                    /\ r.tasks[id].kind = f.op
                    /\ r.tasks[id].light = l
                    /\ Alive(r.tasks[id])
    IN [ tasks |-> IF f.op = "glow"
                   THEN Append(Cancel(r.tasks, r.glow[l]),
                               NewTask("glow", l, f.in[1], f.in[2], << >>))
                   ELSE Append(Cancel(r.tasks, r.hue[l]),
                               NewTask("hue", l, 0, 0, f.colors)),
         glow |-> [ r.glow EXCEPT ![l] = Len(r.tasks) + 1 ],
         hue |-> r.hue,
         last |-> EffectCall(IF f.op = "glow" THEN "start_glow_effect"
                                              ELSE "start_hue_effect", l, alive),
         log |-> Append(r.log, << l, t >>) ]

\* a for loop that starts the effect on the first light only
FanSegmentFirstOnly(r, k, f, t) ==
    [ r |-> StartOn(r, 0, f, t), pc |-> "returned", next |-> NumLights ]

\* the for loop from light k on, up to the next await or the return
RECURSIVE FanSegment(_, _, _, _)
FanSegment(r, k, f, t) ==
    IF k >= NumLights THEN [ r |-> r, pc |-> "returned", next |-> k ]
    ELSE IF k \notin BulkLights THEN FanSegment(r, k + 1, f, t)
    ELSE IF f.offset_ms # 0 THEN [ r |-> StartOn(r, k, f, t), pc |-> "sleep", next |-> k + 1 ]
    ELSE FanSegment(StartOn(r, k, f, t), k + 1, f, t)

\* sleeps that last one ms more than asked
SleepTimesLate(f) == { f.offset_ms + 1 }

\* random.randint(0, offset_ms) / 1000, or offset_ms / 1000
SleepTimes(f) == IF f.offset_is_randomised THEN 0 .. f.offset_ms ELSE { f.offset_ms }

FanRun(f, log, t) ==
    LET seg == FanSegment([ tasks |-> tasks, glow |-> glow_effect_task,
                            hue |-> hue_effect_task, last |-> lastEffectCall,
                            log |-> log ], f.next, f, t)
    IN /\ tasks' = seg.r.tasks
       /\ glow_effect_task' = seg.r.glow
       /\ hue_effect_task' = seg.r.hue
       /\ lastEffectCall' = seg.r.last
       /\ IF seg.pc = "sleep"
          THEN /\ fan' = [ f EXCEPT !.pc = "sleep", !.next = seg.next ]
               /\ fanLog' = seg.r.log
               /\ fanClock' = t
               /\ \E d \in SleepTimes(f) : fanTimer' = d
          ELSE /\ fan' = [ NoFanOut EXCEPT !.op = f.op, !.pc = "returned" ]
               /\ fanLog' = << >>
               /\ fanClock' = 0
               /\ fanTimer' = 0
       /\ UNCHANGED << implement_star, raised, spi_ready, directFrame, hung, lights,
                       snapshot, shutVars, devVars >>

start_glow_effect_all(in, offset_ms, offset_is_randomised) ==
    /\ EvFree
    /\ Spend
    /\ FanRun([ op |-> "glow", pc |-> "run", next |-> 0, in |-> in, colors |-> << >>,
                offset_ms |-> offset_ms, offset_is_randomised |-> offset_is_randomised ],
              << >>, 0)

start_hue_effect_all(colors, offset_ms, offset_is_randomised) ==
    /\ EvFree
    /\ Spend
    /\ FanRun([ op |-> "hue", pc |-> "run", next |-> 0, in |-> << 0, 0 >>,
                colors |-> colors,
                offset_ms |-> offset_ms, offset_is_randomised |-> offset_is_randomised ],
              << >>, 0)

\* the asyncio.sleep of the call has ended: the for loop goes on
fan_out_resume ==
    /\ EvFree
    /\ fan.pc = "sleep"
    /\ fanTimer = 0
    /\ UNCHANGED budget
    /\ FanRun(fan, fanLog, fanClock)

\* time passes up to the end of the call's asyncio.sleep
FanTick ==
    /\ fan.pc = "sleep"
    /\ fanTimer > 0
    /\ fanClock' = fanClock + fanTimer
    /\ fanTimer' = 0
    /\ UNCHANGED << budget, fan, fanLog, implement_star, raised, spi_ready, directFrame,
                    lights, snapshot, slotVars, shutVars, devVars >>

(***************************************************************************)
(* Light.glow: one run of the coroutine from an await to the next.  The    *)
(* two ramps are range(lo, hi) and range(hi, lo, -1); with both empty the  *)
(* `while True` never reaches an await and keeps the event-loop thread.    *)
(***************************************************************************)
\* a glow task keeps min_brightness and max_brightness as lo and hi
GlowLen(t) == Max(Int100(t.hi) - Int100(t.lo), 0)

\* the value written at position pos (0-based) of one up-down cycle
GlowValue(t, pos) ==
    IF pos < GlowLen(t) THEN Int100(t.lo) + pos ELSE Int100(t.hi) - (pos - GlowLen(t))

glow(id) ==
    /\ UNCHANGED << budget, treeVars >>
    /\ EvFree
    /\ id \in DOMAIN tasks
    /\ tasks[id].kind = "glow"
    /\ tasks[id].status = "running"
    /\ LET t == tasks[id]
       IN IF GlowLen(t) = 0
          THEN /\ hung' = id
               /\ tasks' = [ tasks EXCEPT ![id].status = "spinning" ]
               /\ UNCHANGED lights
          ELSE /\ lights' = [ lights EXCEPT ![t.light].brightness = GlowValue(t, t.pos) ]
               /\ tasks' = [ tasks EXCEPT ![id].pos = (t.pos + 1) % (2 * GlowLen(t)) ]
               /\ UNCHANGED hung
    /\ UNCHANGED << glow_effect_task, hue_effect_task, lastEffectCall, snapshot,
                    shutVars, devVars >>

(***************************************************************************)
(* Light.hue: one run of the coroutine from an await to the next.          *)
(***************************************************************************)
rgb_colors_ints(colors) ==
    [ i \in DOMAIN colors |->
        << ToByte(colors[i][1]), ToByte(colors[i][2]), ToByte(colors[i][3]) >> ]

\* an interpolation that starts at the end colour and goes on past it
InterpolateBeyond(start, end, step) == end + ((end - start) * step) \div HueSteps

\* int(start + (end - start) * (step / 100)), the sum being >= 0
Interpolate(start, end, step) == start + ((end - start) * step) \div HueSteps

\* a hue that writes its first colour at full brightness
HueStateFullBrightness(t, brightness) ==
    LET first == rgb_colors_ints(t.colors)[1]
    IN ColorBrightness(first[1], first[2], first[3], 100)

HueState(t, brightness) ==
    LET ints == rgb_colors_ints(t.colors)
        i == (t.pos \div HueSteps) + 1
        step == t.pos % HueSteps
        start_color == ints[i]
        end_color == ints[(i % Len(ints)) + 1]
    IN ColorBrightness(Interpolate(start_color[1], end_color[1], step),
                       Interpolate(start_color[2], end_color[2], step),
                       Interpolate(start_color[3], end_color[3], step),
                       brightness)

hue(id) ==
    /\ UNCHANGED << budget, treeVars >>
    /\ EvFree
    /\ id \in DOMAIN tasks
    /\ tasks[id].kind = "hue"
    /\ tasks[id].status = "running"
    /\ LET t == tasks[id]
           cb == HueState(t, lights[t.light].brightness)
       IN IF Valid(cb)
          THEN /\ lights' = [ lights EXCEPT ![t.light] = cb ]
               /\ snapshot' = Detach(snapshot, t.light)
               /\ tasks' = [ tasks EXCEPT
                               ![id].pos = (t.pos + 1) % (HueSteps * Len(t.colors)) ]
          ELSE /\ tasks' = [ tasks EXCEPT ![id] = Failed(t) ]
               /\ UNCHANGED << lights, snapshot >>
    /\ UNCHANGED << glow_effect_task, hue_effect_task, hung, lastEffectCall,
                    shutVars, devVars >>

(***************************************************************************)
(* LEDTree.shutdown, called from a coroutine: a plain function, so the     *)
(* event-loop thread runs nothing else until it returns.                   *)
(***************************************************************************)
\* shutdown without its pause: device_running is cleared right after lights_off
GraceTicksSkipped == 0 * TicksPerSecond

\* time.sleep(0.2)
GraceTicks == (2 * TicksPerSecond) \div 10

PeriodTicks(rate) == TicksPerSecond \div rate

\* lights_off has ended and its writes are in place
PostOff == shut \in { "sleep", "join", "returned" }

shutdown ==
    /\ UNCHANGED << budget, treeVars >>
    /\ EvFree
    /\ shut = "none"
    /\ shut' = "lights_off"
    /\ offIdx' = 0
    /\ UNCHANGED << graceLeft, lights, snapshot, slotVars, devVars >>

lights_off ==
    /\ UNCHANGED << budget, treeVars >>
    /\ shut = "lights_off"
    /\ lights' = [ lights EXCEPT ![offIdx] = OffState ]
    /\ snapshot' = Detach(snapshot, offIdx)
    /\ IF offIdx + 1 < NumLights
       THEN /\ offIdx' = offIdx + 1
            /\ UNCHANGED << shut, graceLeft >>
       ELSE /\ offIdx' = 0
            /\ shut' = "sleep"
            /\ graceLeft' = GraceTicks
    /\ UNCHANGED << slotVars, devVars >>

\* time.sleep(0.2) has returned: device_running = False
shutdown_stop ==
    /\ UNCHANGED << budget, treeVars >>
    /\ shut = "sleep"
    /\ graceLeft = 0
    /\ device_running' = FALSE
    /\ shut' = "join"
    /\ UNCHANGED << offIdx, graceLeft, lights, snapshot, slotVars, device_refresh_rate,
                    loopPc, loopTimer, bus, snapAfterOff, cleanSnap, offSent, litAfterOff >>

\* the device thread has returned from _spi_transfer_loop or an error has ended it
ThreadEnded == loopPc \in { "done", "dead" }

\* device_thread.join() returns once the thread has ended
shutdown_join ==
    /\ UNCHANGED << budget, treeVars >>
    /\ shut = "join"
    /\ ThreadEnded
    /\ shut' = "returned"
    /\ UNCHANGED << offIdx, graceLeft, lights, snapshot, slotVars, devVars >>

(***************************************************************************)
(* LEDTree._spi_transfer_loop, on the device thread.                       *)
(***************************************************************************)
loop_while ==
    /\ UNCHANGED << budget, treeVars >>
    /\ loopPc = "while"
    /\ loopPc' = IF device_running THEN "snapshot" ELSE "done"
    /\ UNCHANGED << lights, snapshot, slotVars, shutVars, device_running,
                    device_refresh_rate, loopTimer, bus, snapAfterOff, cleanSnap,
                    offSent, litAfterOff >>

\* get_tree_state: one light.get_state() of the list comprehension
get_tree_state ==
    /\ UNCHANGED << budget, treeVars >>
    /\ loopPc = "snapshot"
    /\ snapshot' = Append(snapshot, LiveEntry)
    /\ snapAfterOff' = IF snapshot = << >> THEN PostOff ELSE snapAfterOff
    /\ IF (Len(snapshot) + 1) \in DOMAIN lights
       THEN UNCHANGED << loopPc, cleanSnap >>
       ELSE /\ loopPc' = "transfer"
            /\ cleanSnap' = (cleanSnap \/ (snapAfterOff' /\ device_running))
    /\ UNCHANGED << lights, slotVars, shutVars, device_running, device_refresh_rate,
                    loopTimer, bus, offSent, litAfterOff >>

\* ValueError("SPI must be opened before setting value")
SpiError ==
    [ type |-> "ValueError", msg |-> "SPI must be opened before setting value",
      light_id |-> 0, lo |-> 0, hi |-> 0 ]

\* spi_transfer in the loop: the frame is built from the snapshot and handed to
\* the transport, which keeps the device thread for d ticks; with the transport
\* closed the ValueError leaves _spi_transfer_loop and ends the device thread
spi_transfer(d) ==
    /\ UNCHANGED << budget, treeVars >>
    /\ loopPc = "transfer"
    /\ snapshot' = << >>
    /\ IF spi_ready
       THEN /\ LET data == Encode([ i \in DOMAIN snapshot |-> SnapVal(i) ])
               IN /\ bus' = data
                  /\ offSent' = (offSent \/ (PostOff /\ data = AllOffFrame))
                  /\ litAfterOff' = (litAfterOff \/ (offSent /\ data # AllOffFrame))
            /\ loopTimer' = d
            /\ loopPc' = "transferring"
       ELSE /\ loopPc' = "dead"
            /\ loopTimer' = 0
            /\ UNCHANGED << bus, offSent, litAfterOff >>
    /\ UNCHANGED << lights, slotVars, shutVars, device_running, device_refresh_rate,
                    snapAfterOff, cleanSnap >>

\* the transfer has returned: time.sleep(1 / self.device_refresh_rate)
loop_sleep ==
    /\ UNCHANGED << budget, treeVars >>
    /\ loopPc = "transferring"
    /\ loopTimer = 0
    /\ loopPc' = "sleep"
    /\ loopTimer' = PeriodTicks(device_refresh_rate)
    /\ bus' = << >>
    /\ UNCHANGED << lights, snapshot, slotVars, shutVars, device_running,
                    device_refresh_rate, snapAfterOff, cleanSnap, offSent,
                    litAfterOff >>

loop_wake ==
    /\ UNCHANGED << budget, treeVars >>
    /\ loopPc = "sleep"
    /\ loopTimer = 0
    /\ loopPc' = "while"
    /\ UNCHANGED << lights, snapshot, slotVars, shutVars, device_running,
                    device_refresh_rate, loopTimer, bus, snapAfterOff, cleanSnap,
                    offSent, litAfterOff >>

(***************************************************************************)
(* The transport in the owner's hands: SPIDevice.close(), which LEDTree    *)
(* inherits and which leaves self._spi None, and spi_transfer called by    *)
(* the owner with a list of its own.                                       *)
(***************************************************************************)
close ==
    /\ EvFree
    /\ Spend
    /\ spi_ready' = FALSE
    /\ UNCHANGED << implement_star, raised, directFrame, fanVars, lights, snapshot,
                    slotVars, shutVars, devVars >>

\* the lists the owner passes: one record too few, as many as lights, one too many
DirectSnapshots ==
    { [ i \in 1 .. n |-> from_color(Grey, 100) ] :
        n \in { NumLights - 1, NumLights, NumLights + 1 } }

spi_transfer_call(values) ==
    /\ EvFree
    /\ Spend
    /\ IF spi_ready
       THEN /\ directFrame' = Encode(values)
            /\ UNCHANGED raised
       ELSE /\ raised' = SpiError
            /\ UNCHANGED directFrame
    /\ UNCHANGED << implement_star, spi_ready, fanVars, lights, snapshot, slotVars,
                    shutVars, devVars >>

(***************************************************************************)
(* Time passes while both threads are blocked (in a sleep, in the          *)
(* transfer, in join) or have nothing to run, up to the first wake-up.     *)
(* A sleep ends when its time is up and the statements between two         *)
(* blocking calls take no time; the transfer takes 0 .. MaxTransferTicks.  *)
(***************************************************************************)
Tick ==
    /\ UNCHANGED << budget, treeVars >>
    /\ loopPc \in { "transferring", "sleep", "done", "dead" }
    /\ ~ThreadEnded => loopTimer > 0
    /\ shut \in { "none", "sleep", "join", "returned" }
    /\ shut = "sleep" => graceLeft > 0
    /\ LET timers == (IF ~ThreadEnded THEN { loopTimer } ELSE {})
                     \cup (IF shut = "sleep" THEN { graceLeft } ELSE {})
       IN /\ timers # {}
          /\ LET d == CHOOSE x \in timers : \A y \in timers : x <= y
             IN /\ loopTimer' = IF ~ThreadEnded THEN loopTimer - d ELSE loopTimer
                /\ graceLeft' = IF shut = "sleep" THEN graceLeft - d ELSE graceLeft
    /\ UNCHANGED << lights, snapshot, slotVars, shut, offIdx, device_running,
                    device_refresh_rate, loopPc, bus, snapAfterOff, cleanSnap,
                    offSent, litAfterOff >>

(***************************************************************************)
(* LEDTree.__init__: the lights, set_default_state and start_spi.          *)
(***************************************************************************)
LEDTree(num_lights) ==
    /\ implement_star = TRUE
    /\ raised = NoError
    /\ spi_ready = TRUE
    /\ directFrame = << >>
    /\ fan = NoFanOut
    /\ fanTimer = 0
    /\ fanClock = 0
    /\ fanLog = << >>
    /\ lights = [ l \in 0 .. (num_lights - 1) |->
                    IF l = StarId /\ implement_star
                    THEN from_color(Yellow, DEFAULT_BRIGHTNESS)
                    ELSE from_color(Green, DEFAULT_BRIGHTNESS) ]
    /\ glow_effect_task = [ l \in 0 .. (num_lights - 1) |-> None ]
    /\ hue_effect_task = [ l \in 0 .. (num_lights - 1) |-> None ]
    /\ tasks = << >>
    /\ hung = None
    /\ shut = "none"
    /\ offIdx = 0
    /\ graceLeft = 0
    /\ lastEffectCall = EffectCall("none", 0, FALSE)
    /\ device_running = TRUE
    /\ device_refresh_rate \in RefreshRates
    /\ loopPc = "while"
    /\ snapshot = << >>
    /\ loopTimer = 0
    /\ bus = << >>
    /\ snapAfterOff = FALSE
    /\ cleanSnap = FALSE
    /\ offSent = FALSE
    /\ litAfterOff = FALSE

\* the tree of NumLights lights
Init == LEDTree(NumLights)

\* one call of the caller on a light of ids, or on all lights
Call(ids, glows) ==
    \/ \E l \in ids, c \in ColorInputs, b \in BrightnessInputs : Light_set_state(l, c, b)
    \/ \E l \in ids : Light_off(l)
    \/ \E c \in ColorInputs, b \in BrightnessInputs : set_all_lights(c, b)
    \/ \E l \in ids, in \in glows : Light_start_glow_effect(l, in)
    \/ \E l \in ids : Light_stop_glow_effect(l)
    \/ \E l \in ids, cs \in HueInputs : Light_start_hue_effect(l, cs)
    \/ \E l \in ids : Light_stop_hue_effect(l)
    \/ \E l \in ids : stop_light_effect(l)

\* one run of an effect task on the event loop; a hue task is followed for its
\* first MaxHueTicks steps
Effects ==
    \/ \E id \in DOMAIN tasks : glow(id)
    \/ \E id \in DOMAIN tasks : tasks[id].pos < MaxHueTicks /\ hue(id)

\* the shutdown in progress, the device thread and time
Device ==
    \/ shutdown
    \/ lights_off
    \/ shutdown_stop
    \/ shutdown_join
    \/ loop_while
    \/ get_tree_state
    \/ \E d \in 0 .. MaxTransferTicks : spi_transfer(d)
    \/ loop_sleep
    \/ loop_wake
    \/ Tick

(***************************************************************************)
(* Spec: the whole engine, the caller making at most MaxCalls calls on one *)
(* light and on all lights, before and after it shuts the tree down.       *)
(***************************************************************************)
InitSpec == Init /\ budget = MaxCalls

Next ==
    \/ Call({ 0 }, GlowInputs)
    \/ Effects
    \/ Device

Spec == InitSpec /\ [][Next]_vars

(***************************************************************************)
(* SpecEffects: the event loop alone (the caller's calls and the effect    *)
(* tasks), with more calls, on two lights (the star one of them) and with  *)
(* glow bounds beyond 1.0 among the inputs.                                *)
(***************************************************************************)
InitEffects == Init /\ budget = MaxEffectCalls

NextEffects ==
    \/ Call({ 0, StarId }, WideGlowInputs)
    \/ Effects

SpecEffects == InitEffects /\ [][NextEffects]_vars

(***************************************************************************)
(* SpecTree: the event loop alone, the caller going through the LEDTree    *)
(* methods that take a light_id (ids out of range among them) or act on    *)
(* all lights, stopping the glow of light 0 and setting implement_star.    *)
(***************************************************************************)
InitTree == Init /\ budget = MaxTreeCalls /\ device_refresh_rate = TicksPerSecond

TreeCall ==
    \/ \E id \in TreeLightIds, c \in ColorInputs, b \in BrightnessInputs : set_light(id, c, b)
    \/ \E c \in ColorInputs, b \in BrightnessInputs : set_all_lights(c, b)
    \/ \E id \in TreeLightIds, in \in TreeGlowInputs : start_glow_effect(id, in)
    \/ \E id \in TreeLightIds, cs \in HueInputs : start_hue_effect(id, cs)
    \/ \E id \in TreeLightIds : stop_light_effect(id)
    \/ Light_stop_glow_effect(0)
    \/ \E v \in BOOLEAN : set_implement_star(v)

NextTree ==
    \/ TreeCall
    \/ Effects

SpecTree == InitTree /\ [][NextTree]_vars

(***************************************************************************)
(* SpecDevice: the device thread and the transport.  The owner gives light *)
(* 0 records of many brightnesses, closes the transport, calls             *)
(* spi_transfer itself and shuts the tree down.                            *)
(***************************************************************************)
InitDevice == Init /\ budget = MaxDeviceCalls

DeviceCall ==
    \/ \E c \in DeviceColors, b \in DeviceBrightness : set_light(0, c, b)
    \/ close
    \/ \E vs \in DirectSnapshots : spi_transfer_call(vs)

NextDevice ==
    \/ DeviceCall
    \/ Device

SpecDevice == InitDevice /\ [][NextDevice]_vars

(***************************************************************************)
(* SpecFanout: the event loop with the calls without light_id.  The effect *)
(* tasks are followed for MaxFanTicks runs in all.  The event loop runs a  *)
(* coroutine whose sleep has ended, and time passes: the two fairness      *)
(* conditions.                                                             *)
(***************************************************************************)
InitFanout == Init /\ budget = MaxFanCalls /\ device_refresh_rate = TicksPerSecond

\* the runs the tasks alive have made, a glow task counting within its cycle
RECURSIVE TicksDone(_)
TicksDone(ts) == IF ts = << >> THEN 0 ELSE Head(ts).pos + TicksDone(Tail(ts))

FanEffects ==
    \/ \E id \in DOMAIN tasks : TicksDone(tasks) < MaxFanTicks /\ glow(id)
    \/ \E id \in DOMAIN tasks : TicksDone(tasks) < MaxFanTicks /\ hue(id)

FanCall ==
    \/ \E in \in FanGlowInputs, o \in OffsetInputs : start_glow_effect_all(in, o[1], o[2])
    \/ \E cs \in HueInputs, o \in OffsetInputs : start_hue_effect_all(cs, o[1], o[2])

NextFanout ==
    \/ FanCall
    \/ fan_out_resume
    \/ FanTick
    \/ FanEffects

SpecFanout ==
    InitFanout /\ [][NextFanout]_vars /\ WF_vars(fan_out_resume) /\ WF_vars(FanTick)

(***************************************************************************)
(* SpecHue: hue tasks on light 0 followed through whole cycles of their    *)
(* colour lists, of one, two and three colours.                            *)
(***************************************************************************)
InitHue == Init /\ budget = MaxHueCalls /\ device_refresh_rate = TicksPerSecond

NextHue ==
    \/ \E cs \in LongHueInputs : start_hue_effect(0, cs)
    \/ \E id \in DOMAIN tasks : hue(id)

SpecHue == InitHue /\ [][NextHue]_vars

(***************************************************************************)
(* SpecFrame: trees constructed with the pixel counts of PixelCounts       *)
(* (self.lights[3] in __init__ needs four lights at least), each with its  *)
(* device thread taking snapshots and handing frames to the transport.     *)
(***************************************************************************)
PixelCounts == { 4, 24, 64, 65 }

InitFrame ==
    /\ \E n \in PixelCounts : LEDTree(n)
    /\ budget = 0
    /\ device_refresh_rate = TicksPerSecond

NextFrame ==
    \/ loop_while
    \/ get_tree_state
    \/ \E d \in 0 .. MaxTransferTicks : spi_transfer(d)
    \/ loop_sleep
    \/ loop_wake
    \/ Tick

SpecFrame == InitFrame /\ [][NextFrame]_vars

(***************************************************************************)
(* The claims.                                                             *)
(***************************************************************************)

\* C1: a start_glow_effect made on a light while a glow task is alive on it leaves
\* exactly one glow task alive on that light.
C1_OneGlowAfterRestart ==
    \A l \in LightIds :
        lastEffectCall = EffectCall("start_glow_effect", l, TRUE)
            => Cardinality(AliveTasks("glow", l)) = 1

\* C2: start_hue_effect cancels the running hue task before it starts the new one:
\* no light ever has more than one hue task alive.
C2_AtMostOneHue ==
    \A l \in LightIds : Cardinality(AliveTasks("hue", l)) <= 1

\* C3: the glow calls of a light never cancel a hue task alive on it, and the hue
\* calls never cancel a glow task alive on it nor take it out of the glow slot.
C3_SlotsIndependent ==
    [][ \A l \in LightIds :
          /\ ( \/ \E in \in WideGlowInputs : Light_start_glow_effect(l, in)
               \/ Light_stop_glow_effect(l) )
                => \A id \in AliveTasks("hue", l) : Alive(tasks'[id])
          /\ ( \/ \E cs \in HueInputs : Light_start_hue_effect(l, cs)
               \/ Light_stop_hue_effect(l) )
                => \A id \in AliveTasks("glow", l) :
                      /\ Alive(tasks'[id])
                      /\ glow_effect_task[l] = id => glow_effect_task'[l] = id
      ]_vars

\* C4: after stop_hue_effect on a light its hue slot is idle: it holds no task and
\* no hue task is alive on the light, so none writes a colour to it any more.
C4_StopHueCancels ==
    \A l \in LightIds :
        (lastEffectCall.op = "stop_hue_effect" /\ lastEffectCall.light = l)
            => hue_effect_task[l] = None /\ AliveTasks("hue", l) = {}

\* C5: after stop_light_effect(light_id) no glow task and no hue task is alive on
\* that light.
C5_StopLightEffectStopsAll ==
    \A l \in LightIds :
        (lastEffectCall.op = "stop_light_effect" /\ lastEffectCall.light = l)
            => AliveTasks("glow", l) \cup AliveTasks("hue", l) = {}

\* C6: at the default refresh rate, by the time the loop has ended or shutdown has
\* returned an all-off frame was handed to the transport after lights_off; no
\* other frame is handed over after that one; and once shutdown has returned the
\* device thread has ended and the transport holds nothing.
C6_ShutdownSendsOffFrame ==
    device_refresh_rate = TicksPerSecond =>
        /\ (shut \in { "join", "returned" } /\ loopPc = "done") => offSent
        /\ ~litAfterOff
        /\ shut = "returned" => loopPc = "done" /\ bus = << >>

\* C6 happens: shutdown has returned at the default rate with an effect task still
\* attached to a light, and the all-off frame was sent.
C6_Witness ==
    /\ device_refresh_rate = TicksPerSecond
    /\ shut = "returned"
    /\ offSent
    /\ \E l \in LightIds :
          glow_effect_task[l] # None /\ Alive(tasks[glow_effect_task[l]])

\* C7: once shutdown has returned no effect task is alive.
C7_ShutdownCancelsTasks ==
    shut = "returned" => \A id \in DOMAIN tasks : ~Alive(tasks[id])

\* C8: whatever the refresh rate, the grace period is long enough (longer than one
\* period of the loop) that when the loop is told to stop one of its iterations
\* has taken its whole snapshot after lights_off and before that.
C8_GraceExceedsPeriod ==
    shut \in { "join", "returned" } => cleanSnap

\* C9: a glow task started with min_brightness >= max_brightness never keeps the
\* event-loop thread: it suspends between ticks.
C9_DegenerateGlowSuspends ==
    \A id \in DOMAIN tasks :
        (tasks[id].kind = "glow" /\ tasks[id].lo >= tasks[id].hi)
            => tasks[id].status # "spinning" /\ hung # id

\* C10: every light's record has red, green and blue in 0..255 and brightness in
\* [0.0, 1.0].
C10_RecordsInRange ==
    \A l \in LightIds : Valid(lights[l])

\* C11: a call of set_light, start_glow_effect, start_hue_effect or
\* stop_light_effect with a light id outside 0..N-1 (a negative one included)
\* raises an error that states the range 0..N-1 and changes no light's record and
\* no effect slot or task.
C11_OutOfRangeRejected ==
    [][ \A id \in BadLightIds :
          ( \/ \E c \in ColorInputs, b \in BrightnessInputs : set_light(id, c, b)
            \/ \E in \in TreeGlowInputs : start_glow_effect(id, in)
            \/ \E cs \in HueInputs : start_hue_effect(id, cs)
            \/ stop_light_effect(id) )
              => /\ raised'.type = "ValueError"
                 /\ raised'.light_id = id
                 /\ raised'.lo = 0 /\ raised'.hi = NumLights - 1
                 /\ UNCHANGED << lights, glow_effect_task, hue_effect_task, tasks >>
      ]_vars

\* C11 happens: a call with a negative id was rejected while an effect task was
\* attached to a light.
C11_Witness ==
    /\ raised.type = "ValueError"
    /\ raised.light_id < 0
    /\ \E l \in LightIds : glow_effect_task[l] # None

\* C12: for a snapshot of N valid records the loop hands the transport four zero
\* bytes, then for each pixel in index order the byte 0b11100000 | floor(31 *
\* brightness) followed by blue, green and red, then five zero bytes, 4N + 9 bytes
\* in all; each brightness byte has its top three bits set and floor(31 *
\* brightness) in its low five bits.
C12_FrameLayout ==
    [][ \A d \in 0 .. MaxTransferTicks :
          ( /\ spi_transfer(d)
            /\ spi_ready
            /\ Len(snapshot) = NumLights
            /\ \A i \in 1 .. NumLights : Valid(SnapVal(i)) )
              => /\ Len(bus') = 4 * NumLights + 9
                 /\ \A k \in 1 .. 4 : bus'[k] = 0
                 /\ \A k \in 1 .. 5 : bus'[4 * NumLights + 4 + k] = 0
                 /\ \A i \in 1 .. NumLights :
                       LET v == SnapVal(i)
                           o == 4 * i
                           level == (31 * v.brightness) \div 100
                       IN /\ bus'[o + 1] = 224 + level
                          /\ bus'[o + 1] \div 32 = 7
                          /\ bus'[o + 1] % 32 = level
                          /\ bus'[o + 2] = v.blue
                          /\ bus'[o + 3] = v.green
                          /\ bus'[o + 4] = v.red
      ]_vars

\* C12 happens: the transport holds a frame whose first pixel has brightness 0.33
\* (level 10) and three different channels, and whose star pixel is yellow.
C12_Witness ==
    /\ loopPc = "transferring"
    /\ Len(bus) = 4 * NumLights + 9
    /\ bus[5] = 234 /\ bus[6] = 254 /\ bus[7] = 127 /\ bus[8] = 1
    /\ bus[4 * StarId + 6] = 0 /\ bus[4 * StarId + 8] = 255

\* C13: when the loop finds the transport not ready it ends without handing
\* anything over, and the owner learns of it: an error reaches the owner or
\* device_running is cleared; the tree never reports device_running with the
\* loop dead.
C13_TransportFailureSurfaced ==
    loopPc = "dead" =>
        /\ bus = << >>
        /\ (~device_running \/ raised = SpiError)

\* C14: spi_transfer called with a list whose length is not N raises a
\* length-mismatch error and hands nothing to the transport.
C14_LengthMismatchRejected ==
    [][ \A vs \in DirectSnapshots :
          (spi_transfer_call(vs) /\ Len(vs) # NumLights)
              => /\ raised'.type # "none"
                 /\ raised'.msg # SpiError.msg
                 /\ UNCHANGED directFrame
      ]_vars

\* C15: a set_all_lights with a valid colour and brightness gives that colour and
\* brightness to every light but the star (index 3), which keeps its record, when
\* implement_star is set, and to every light, the star included, when it is not.
C15_SetAllLightsStar ==
    [][ \A c \in ColorInputs, b \in BrightnessInputs :
          (set_all_lights(c, b) /\ b \in 0 .. 100)
              => \A l \in LightIds :
                    lights'[l] = IF l = StarId /\ implement_star
                                 THEN lights[l]
                                 ELSE ColorBrightness(c[1] \div 2, c[2] \div 2, c[3] \div 2, b)
      ]_vars

\* C15 happens: with implement_star cleared the star got the colour of the others.
C15_Witness ==
    /\ ~implement_star
    /\ \A l \in LightIds : lights[l] = from_color(Grey, 100)

\* a step of a call without light_id: the call up to its first await or its
\* return, or its next run after a sleep
FanStep ==
    \/ \E in \in FanGlowInputs, o \in OffsetInputs : start_glow_effect_all(in, o[1], o[2])
    \/ \E cs \in HueInputs, o \in OffsetInputs : start_hue_effect_all(cs, o[1], o[2])
    \/ fan_out_resume

RECURSIVE BulkFrom(_)
BulkFrom(k) ==
    IF k >= NumLights THEN << >>
    ELSE IF k = StarId THEN BulkFrom(k + 1)
    ELSE << k >> \o BulkFrom(k + 1)

\* C17: while a call without light_id with an offset is in progress, the lights it
\* has started are the first non-star lights in increasing index order, and each
\* start comes exactly offset_ms after the one before when the offset is not
\* randomised, and between 0 and offset_ms after it when it is.
C17_FanOutOrderAndGaps ==
    fan.pc = "sleep" =>
        /\ Len(fanLog) >= 1
        /\ \A i \in 1 .. Len(fanLog) : fanLog[i][1] = BulkFrom(0)[i]
        /\ \A i \in 1 .. (Len(fanLog) - 1) :
              LET gap == fanLog[i + 1][2] - fanLog[i][2]
              IN IF fan.offset_is_randomised
                 THEN 0 <= gap /\ gap <= fan.offset_ms
                 ELSE gap = fan.offset_ms

\* C17 happens: a call with a fixed offset has started the effect on every light
\* but the star and is in its last sleep.
C17_Witness ==
    /\ fan.pc = "sleep"
    /\ ~fan.offset_is_randomised
    /\ Len(fanLog) = NumLights - 1
    /\ fanLog[Len(fanLog)][2] = (NumLights - 2) * fan.offset_ms

\* C18: every write of a glow task started with 0 <= min < max <= 1 is a
\* brightness in [min, max]; the writes do not decrease along the upward ramp nor
\* increase along the downward ramp, and the direction turns only at min or max.
C18_GlowWithinBounds ==
    [][ \A id \in DOMAIN tasks :
          LET t == tasks[id]
              written == lights'[t.light].brightness
              last == GlowValue(t, t.pos - 1)
              before == GlowValue(t, t.pos - 2)
          IN (glow(id) /\ 0 <= t.lo /\ t.lo < t.hi /\ t.hi <= 100)
                => /\ t.lo <= written /\ written <= t.hi
                   /\ (t.pos >= 1 /\ t.pos < GlowLen(t)) => written >= last
                   /\ t.pos > GlowLen(t) => written <= last
                   /\ (t.pos >= 2 /\ (last - before) * (written - last) < 0)
                        => last \in { t.lo, t.hi }
      ]_vars

\* v lies between a and b, the two included
Between(v, a, b) == (a <= v /\ v <= b) \/ (b <= v /\ v <= a)

\* C19: the k-th write of a hue task over n >= 1 colours (k counted from 0) belongs
\* to the pair (colors[i], colors[(i + 1) mod n]) with i = (k div 100) mod n, so
\* that i moves on by one every 100 writes and wraps from the last colour to the
\* first; the red, green and blue written lie between the channels of that pair;
\* and with one colour every write is that colour.
C19_HueWithinPair ==
    [][ \A id \in DOMAIN tasks :
          LET t == tasks[id]
              n == Len(t.colors)
              i == t.pos \div 100
              from == t.colors[i + 1]
              to == t.colors[((i + 1) % n) + 1]
              written == lights'[t.light]
          IN (hue(id) /\ n >= 1)
                => /\ i < n
                   /\ tasks'[id].pos = (t.pos + 1) % (100 * n)
                   /\ Between(written.red, from[1] \div 2, to[1] \div 2)
                   /\ Between(written.green, from[2] \div 2, to[2] \div 2)
                   /\ Between(written.blue, from[3] \div 2, to[3] \div 2)
                   /\ n = 1 => /\ written.red = from[1] \div 2
                               /\ written.green = from[2] \div 2
                               /\ written.blue = from[3] \div 2
      ]_vars

\* C19 happens: a task over three colours is on its last pair, from the last
\* colour back to the first, and has written a colour strictly between the two.
C19_Witness ==
    \E id \in DOMAIN tasks :
        /\ tasks[id].kind = "hue"
        /\ Len(tasks[id].colors) = 3
        /\ tasks[id].pos > 250
        /\ lights[0].red > 0 /\ lights[0].red < 255
        /\ lights[0].green > 0 /\ lights[0].green < 128

\* C20: a stop_glow_effect on a light whose last effect call was a
\* stop_glow_effect, or whose glow slot is idle, leaves the glow slot idle, raises
\* nothing and changes neither the light's record nor the hue slot nor any task.
C20_StopGlowTwice ==
    [][ LET l == lastEffectCall'.light
        IN ( /\ budget' < budget
             /\ lastEffectCall'.op = "stop_glow_effect"
             /\ Light_stop_glow_effect(l)
             /\ \/ lastEffectCall.op = "stop_glow_effect" /\ lastEffectCall.light = l
                \/ glow_effect_task[l] = None )
               => /\ glow_effect_task'[l] = None
                  /\ UNCHANGED << glow_effect_task, hue_effect_task, tasks, lights, raised >>
      ]_vars

\* C20 happens: the third call was a stop_glow_effect on light 0 that found no
\* glow task alive, the task started first having been cancelled by the second.
C20_Witness ==
    /\ budget = MaxTreeCalls - 3
    /\ lastEffectCall = EffectCall("stop_glow_effect", 0, FALSE)
    /\ glow_effect_task[0] = None
    /\ \E id \in DOMAIN tasks :
          /\ tasks[id].kind = "glow"
          /\ tasks[id].light = 0
          /\ tasks[id].status = "cancelled"

\* C21: a glow task whose handle is in the light's glow slot when stop_glow_effect
\* or start_glow_effect is called on the light is no longer alive after the call,
\* and a task that is not alive never runs again: it makes no further write, at
\* the replacing task's first run or later.
C21_CancelledGlowStops ==
    [][ /\ \A l \in LightIds :
             LET old == glow_effect_task[l]
             IN ( /\ old # None
                  /\ tasks[old].kind = "glow"
                  /\ \/ Light_stop_glow_effect(l)
                     \/ \E in \in TreeGlowInputs : Light_start_glow_effect(l, in) )
                    => ~Alive(tasks'[old])
        /\ \A id \in DOMAIN tasks :
             ~Alive(tasks[id]) => (tasks'[id] = tasks[id] /\ ~glow(id))
      ]_vars

\* C21 happens: a glow task on light 0 was cancelled by the start of another one,
\* which has made its first run since.
C21_Witness ==
    \E old, new \in DOMAIN tasks :
        /\ tasks[old].kind = "glow" /\ tasks[old].light = 0
        /\ tasks[old].status = "cancelled"
        /\ tasks[new].kind = "glow" /\ tasks[new].light = 0
        /\ tasks[new].status = "running"
        /\ tasks[new].pos > 0
        /\ glow_effect_task[0] = new

\* the colour of a record
Rgb(cb) == << cb.red, cb.green, cb.blue >>

\* C22: a run of a glow task changes no light's red, green or blue (and only its
\* own light's brightness); a run of a hue task leaves the brightness of every
\* light, its own included, at the value it had just before the run.
C22_GlowBrightnessHueColour ==
    [][ \A id \in DOMAIN tasks :
          /\ glow(id) =>
                \A l \in LightIds :
                   /\ Rgb(lights'[l]) = Rgb(lights[l])
                   /\ l # tasks[id].light => lights'[l] = lights[l]
          /\ hue(id) =>
                \A l \in LightIds :
                   /\ lights'[l].brightness = lights[l].brightness
                   /\ l # tasks[id].light => lights'[l] = lights[l]
      ]_vars

\* C22 happens: a glow task and a hue task of light 0 have both run and a
\* set_state has written the light since.
C22_Witness ==
    /\ lights[0] = from_color(Grey, 100)
    /\ \E g, h \in DOMAIN tasks :
          /\ tasks[g].kind = "glow" /\ tasks[g].light = 0
          /\ tasks[g].status = "running" /\ tasks[g].pos > 0
          /\ tasks[h].kind = "hue" /\ tasks[h].light = 0
          /\ tasks[h].status = "running" /\ tasks[h].pos > 0

\* C23: every pixel the loop encodes was the light's record at one instant.  An
\* entry of the snapshot shows the record the light holds now, whose red, green
\* and blue never change while the light holds it, or, once the light's record
\* has been replaced, the record the light held just before that, unchanged
\* since; and the frame handed over encodes exactly what the entries show.
C23_PixelsWereHeld ==
    [][ /\ \A i \in DOMAIN snapshot :
             i \in DOMAIN snapshot' =>
                /\ (snapshot[i].live /\ snapshot'[i].live)
                      => Rgb(lights'[i - 1]) = Rgb(lights[i - 1])
                /\ (snapshot[i].live /\ ~snapshot'[i].live)
                      => snapshot'[i].val = lights[i - 1]
                /\ ~snapshot[i].live => snapshot'[i] = snapshot[i]
        /\ (loopPc = "transfer" /\ loopPc' = "transferring") =>
             \A i \in DOMAIN snapshot :
                LET v == IF snapshot[i].live THEN lights[i - 1] ELSE snapshot[i].val
                IN /\ bus'[4 * i + 1] = 224 + (31 * v.brightness) \div 100
                   /\ bus'[4 * i + 2] = v.blue
                   /\ bus'[4 * i + 3] = v.green
                   /\ bus'[4 * i + 4] = v.red
      ]_vars

\* C23 happens: the loop is about to encode a snapshot whose entry for light 0
\* is a record the light no longer holds, a hue task having replaced it while a
\* glow task was writing the light's brightness.
C23_Witness ==
    /\ loopPc = "transfer"
    /\ ~snapshot[1].live
    /\ Rgb(snapshot[1].val) # Rgb(lights[0])
    /\ \E g, h \in DOMAIN tasks :
          /\ tasks[g].kind = "glow" /\ tasks[g].status = "running" /\ tasks[g].pos > 0
          /\ tasks[h].kind = "hue" /\ tasks[h].status = "running" /\ tasks[h].pos > 0

\* C24: only the transmission loop hands bytes to the transport.  A step that
\* is a call of the caller (set_state, off, set_all_lights, starting or stopping
\* an effect), a run of an effect task or a step of shutdown and lights_off
\* leaves the transport as it was; the bytes on the transport change only in the
\* loop's spi_transfer and when that transfer returns; and the loop gets to its
\* snapshot and transfer only from a while test that found device_running true.
C24_OnlyLoopTransfers ==
    [][ /\ ( \/ budget' # budget
             \/ lights' # lights
             \/ tasks' # tasks
             \/ glow_effect_task' # glow_effect_task
             \/ hue_effect_task' # hue_effect_task
             \/ shutVars' # shutVars
             \/ device_running' # device_running ) => bus' = bus
        /\ bus' # bus =>
             \/ loopPc = "transfer" /\ loopPc' = "transferring" /\ bus = << >>
             \/ loopPc = "transferring" /\ loopPc' = "sleep" /\ bus' = << >>
        /\ (loopPc' = "snapshot" /\ loopPc # "snapshot")
             => (loopPc = "while" /\ device_running)
        /\ (loopPc' = "transfer" /\ loopPc # "transfer") => loopPc = "snapshot"
      ]_vars

\* C24 happens: a frame is on the transport, handed over by the loop, and light
\* 0 has since been given another record by a call while a glow task has run,
\* with no transfer: the frame still shows the older record.
C24_Witness ==
    /\ loopPc = "transferring"
    /\ Len(bus) = 4 * NumLights + 9
    /\ budget < MaxCalls
    /\ << bus[6], bus[7], bus[8] >>
         # << lights[0].blue, lights[0].green, lights[0].red >>
    /\ \E g \in DOMAIN tasks :
          tasks[g].kind = "glow" /\ tasks[g].status = "running" /\ tasks[g].pos > 0

\* C25: a run of a glow task changes the brightness it wrote last by 1/100 of
\* (max_brightness - min_brightness), and each ramp from one bound to the other
\* has 100 writes, so that a cycle of the two ramps starts again after 200 runs.
\* Brightnesses and bounds being in hundredths, 100 times the change is the range.
C25_GlowStepHundredthOfRange ==
    [][ \A id \in DOMAIN tasks :
          LET t == tasks[id]
              written == lights'[t.light].brightness
              last == GlowValue(t, t.pos - 1)
              change == IF written >= last THEN written - last ELSE last - written
          IN (glow(id) /\ 0 <= t.lo /\ t.lo < t.hi /\ t.hi <= 100 /\ tasks'[id].status = "running")
                => /\ t.pos >= 1 => 100 * change = t.hi - t.lo
                   /\ tasks'[id].pos = 0 => t.pos + 1 = 2 * HueSteps
      ]_vars

\* C26: with N the number of lights of the tree, the bytes of a frame on the
\* transport after the start marker and the 4 * N pixel bytes are zero and are
\* at least ceil(N / 16) + 1.
C26_EndMarkerLongEnough ==
    bus # << >> =>
        LET n == Cardinality(DOMAIN lights)
            marker == Len(bus) - 4 - 4 * n
        IN /\ marker >= (n + 15) \div 16 + 1
           /\ \A k \in 1 .. marker : bus[4 + 4 * n + k] = 0

\* C27: the values a snapshot holds are those of the instant it was taken: once
\* get_tree_state has returned the snapshot, no step that leaves the snapshot
\* with its holder (a run of a glow or hue task, a set_state among them) changes
\* the value an entry of it shows.
C27_SnapshotKeepsValues ==
    [][ \A i \in DOMAIN snapshot :
          (loopPc = "transfer" /\ i \in DOMAIN snapshot') =>
             (IF snapshot'[i].live THEN lights'[i - 1] ELSE snapshot'[i].val)
                = SnapVal(i)
      ]_vars

====
